---- MODULE Spec2Model ----
(***************************************************************************)
(* Enhanced Peer Dependencies (epd): the conflict resolution engine and    *)
(* the manifest mutation protocol of the install command.                  *)
(*                                                                         *)
(* Two implementations of the install command live in the repository: the  *)
(* JavaScript entry point (src/unnamed/part_002, "legacy" below) and the   *)
(* TypeScript entry point (src/src/index.ts, "ts" below).                  *)
(***************************************************************************)
EXTENDS Integers, Sequences, FiniteSets, TLC

VARIABLES
    \* ---- resolver (collectPeerDependencies of part_002) ----
    packages,             \* workspace members: sequence of [name, peerDependencies]
    published,            \* versions the remote registry holds for a package name
    allPeerDeps,          \* Map dep -> sequence of {requiredBy, versionRange}
    resolvedPeerDeps,     \* dep -> resolved version string (NoStr: no entry)
    conflictReport,       \* dep -> conflict record (present = FALSE: no entry)
    outcome,              \* dep -> value returned by resolveVersionConflict
    packageVersionCache,  \* dep -> cached version list
    fetchCount,           \* dep -> number of registry fetches issued
    lastFetch,            \* dep -> how the registry answered the last fetch
    task,                 \* dep -> position of its resolution promise
    cpc,                  \* position of collectPeerDependencies
    \* ---- install command and manifest mutator ----
    driver,               \* the entry point: "handleInstall", "collector" or "merge"
    impl,                 \* "legacy" (part_002) or "ts" (src/index.ts)
    pm,                   \* detected package manager
    monorepoFs,           \* lerna.json, pnpm-workspace.yaml or a populated packages/ dir
    manifest,             \* the file package.json
    backup,               \* the file package.json.backup
    fileCache,            \* fileCache entry of ./package.json
    peerDeps,             \* resolved map handed to createTemporaryPackageJson
    pc,                   \* position of the caller
    rs,                   \* position inside restoreOriginalPackageJson
    original,             \* the two files as they were when the run started
    written,              \* this run has written a changed package.json
    pre,                  \* the two files when the operation in progress began
    backedUp,             \* this run has written package.json.backup
    hist                  \* operations completed so far

rvars == <<packages, published, allPeerDeps, resolvedPeerDeps, conflictReport,
           outcome, packageVersionCache, fetchCount, lastFetch, task, cpc>>

ivars == <<driver, impl, pm, monorepoFs, manifest, backup, fileCache, peerDeps, pc, rs,
           original, written, backedUp, pre, hist>>

vars == <<rvars, ivars>>

-----------------------------------------------------------------------------
(* Bounds *)

MaxMembers == 2

\* how many times in a row the merge is applied to its own result
MaxApplications == 2

-----------------------------------------------------------------------------
(* Strings that carry versions and ranges.  A string is kept as what the    *)
(* semver package parses out of it: k is the syntactic kind, v the version  *)
(* it names, c the comparator list of a normalised range.                   *)

NoVer == <<0, 0, 0>>

Str(k, v, c) == [k |-> k, v |-> v, c |-> c]

NoStr == Str("none", NoVer, <<>>)          \* undefined / null
Exact(v) == Str("exact", v, <<>>)          \* "16.0.0"
Caret(v) == Str("caret", v, <<>>)          \* "^16.0.0"
Tilde(v) == Str("tilde", v, <<>>)          \* "~16.0.0"
Star == Str("star", NoVer, <<>>)           \* "*"
Bad == Str("bad", NoVer, <<>>)             \* not a semver range ("latest", "workspace:^")
Norm(c) == Str("norm", NoVer, c)           \* ">=16.0.0 <17.0.0-0"
Gte(v) == Str("gte", v, <<>>)              \* ">=16.0.0"
Hyphen(lo, hi) == Str("hyphen", lo, <<hi>>)   \* "16.0.0 - 17.0.0"

\* a key of data.versions that is no semver version ("next")
NoSemver == <<-1, -1, -1>>

IsSemver(v) == v # NoSemver

Truthy(s) == s # NoStr

-----------------------------------------------------------------------------
(* The semver package, as far as the resolver uses it. *)

\* semver.compare on two versions: -1, 0 or 1
compare(a, b) ==
    IF a[1] # b[1] THEN (IF a[1] < b[1] THEN -1 ELSE 1)
    ELSE IF a[2] # b[2] THEN (IF a[2] < b[2] THEN -1 ELSE 1)
    ELSE IF a[3] # b[3] THEN (IF a[3] < b[3] THEN -1 ELSE 1)
    ELSE 0

gt(a, b) == compare(a, b) = 1

\* A comparator of a range: operator and version; "" with NoVer is ANY
Comp(op, v) == [op |-> op, v |-> v]
ANY == Comp("", NoVer)

\* replaceCaret: ^M.m.p as >=M.m.p <upper
CaretUpper(v) ==
    IF v[1] > 0 THEN <<v[1] + 1, 0, 0>>
    ELSE IF v[2] > 0 THEN <<0, v[2] + 1, 0>>
    ELSE <<0, 0, v[3] + 1>>

\* replaceTilde: ~M.m.p as >=M.m.p <M.(m+1).0
TildeUpper(v) == <<v[1], v[2] + 1, 0>>

\* replaceGTE0: the comparator >=0.0.0 is ANY
replaceGTE0(cmp) == IF cmp = Comp(">=", NoVer) THEN ANY ELSE cmp

\* parseComparator on one range string of the join; <<>> stands for a string
\* the Comparator constructor rejects (TypeError)
parseComparator(s) ==
    CASE s.k = "exact" -> <<Comp("=", s.v)>>
      [] s.k = "caret" -> <<replaceGTE0(Comp(">=", s.v)), Comp("<", CaretUpper(s.v))>>
      [] s.k = "tilde" -> <<replaceGTE0(Comp(">=", s.v)), Comp("<", TildeUpper(s.v))>>
      [] s.k = "star" -> <<ANY>>
      [] s.k = "gte" -> <<replaceGTE0(Comp(">=", s.v))>>
      [] s.k = "hyphen" -> <<replaceGTE0(Comp(">=", s.v)), Comp("<=", s.c[1])>>
      [] s.k = "norm" -> [i \in 1..Len(s.c) |-> replaceGTE0(s.c[i])]
      [] OTHER -> <<>>

Parses(s) == parseComparator(s) # <<>>

RECURSIVE Flatten(_)
Flatten(strs) ==
    IF strs = <<>> THEN <<>> ELSE parseComparator(Head(strs)) \o Flatten(Tail(strs))

InSeq(x, seq) == \E i \in 1..Len(seq) : seq[i] = x

\* rangeMap.set(comp.value, comp): one entry per comparator, first position kept
RECURSIVE DedupeInto(_, _)
DedupeInto(acc, seq) ==
    IF seq = <<>> THEN acc
    ELSE DedupeInto(IF InSeq(Head(seq), acc) THEN acc ELSE Append(acc, Head(seq)),
                    Tail(seq))

RECURSIVE Without(_, _)
Without(seq, x) ==
    IF seq = <<>> THEN <<>>
    ELSE IF Head(seq) = x THEN Without(Tail(seq), x)
    ELSE <<Head(seq)>> \o Without(Tail(seq), x)

\* Range.parseRange on the space-joined strings (all of them must parse)
parseRange(strs) ==
    LET m == DedupeInto(<<>>, Flatten(strs))
    IN  IF Len(m) > 1 /\ InSeq(ANY, m) THEN Without(m, ANY) ELSE m

\* Range.format: the string of a comparator list
format(comps) ==
    IF comps = <<ANY>> THEN Star                       \* '' || '*'
    ELSE IF Len(comps) = 1 /\ comps[1].op = "=" THEN Exact(comps[1].v)
    ELSE Norm(comps)

\* the hyphen form is recognised only when it is the whole range: joined to
\* another string its "-" is left as a comparator, which the Comparator
\* constructor rejects
ParsesJoined(strs) ==
    /\ \A i \in 1..Len(strs) : Parses(strs[i])
    /\ Len(strs) > 1 => \A i \in 1..Len(strs) : strs[i].k # "hyphen"

\* semver.validRange(strs joined by " "): the normalised range, or null
validRange(strs) ==
    IF ParsesJoined(strs) THEN format(parseRange(strs)) ELSE NoStr

\* semver.valid(s): s is one complete version
valid(s) == s.k = "exact"

testComp(version, cmp) ==
    CASE cmp.op = "" -> TRUE
      [] cmp.op = "=" -> compare(version, cmp.v) = 0
      [] cmp.op = ">=" -> compare(version, cmp.v) >= 0
      [] cmp.op = "<=" -> compare(version, cmp.v) <= 0
      [] cmp.op = "<" -> compare(version, cmp.v) < 0

\* semver.satisfies(version, range): FALSE when the range does not parse and
\* when the version is no semver version
satisfies(version, s) ==
    /\ Parses(s)
    /\ IsSemver(version)
    /\ LET comps == parseRange(<<s>>)
       IN  \A i \in 1..Len(comps) : testComp(version, comps[i])

\* semver.maxSatisfying(versions, range): the greatest satisfying version, or null
maxSatisfying(versions, s) ==
    LET ok == {i \in 1..Len(versions) : satisfies(versions[i], s)}
    IN  IF ok = {} THEN NoStr
        ELSE Exact(versions[CHOOSE i \in ok :
                       \A j \in ok : compare(versions[i], versions[j]) >= 0])

-----------------------------------------------------------------------------
(* Resolver: resolveVersionConflict and its helpers (part_002) *)

\* a.replace(/[^0-9.]/g, ""): the digits and dots of a range string; NoVer
\* when what is left is no version (semver.compare throws)
BaseVersion(s) == IF s.k \in {"exact", "caret", "tilde", "gte"} THEN s.v ELSE NoVer

HasBase(s) == s.k \in {"exact", "caret", "tilde", "gte"}

\* the comparison function of findHighestSemverVersion
rangeOrder(a, b) ==
    IF a = Star THEN 1
    ELSE IF b = Star THEN -1
    ELSE IF a.k = "caret" /\ b.k # "caret" THEN -1
    ELSE IF a.k # "caret" /\ b.k = "caret" THEN 1
    ELSE IF HasBase(a) /\ HasBase(b) THEN compare(BaseVersion(b), BaseVersion(a))
    ELSE 0

(* Array.prototype.sort as V8 runs it on a short array (fewer than 64       *)
(* elements: one run is counted and the rest is inserted by binary search). *)
(* rangeOrder(a, b) is the comparison function.                             *)

Reverse(seq) == [i \in 1..Len(seq) |-> seq[Len(seq) + 1 - i]]

\* length of the run that starts the array; the run is descending when the
\* second element compares below the first
RECURSIVE RunLength(_, _, _)
RunLength(arr, desc, idx) ==
    IF idx > Len(arr) THEN idx - 1
    ELSE LET order == rangeOrder(arr[idx], arr[idx - 1])
         IN  IF (desc /\ order >= 0) \/ (~desc /\ order < 0) THEN idx - 1
             ELSE RunLength(arr, desc, idx + 1)

RECURSIVE BinarySearch(_, _, _, _)
BinarySearch(sorted, pivot, left, right) ==
    IF left >= right THEN left
    ELSE LET mid == left + ((right - left) \div 2)
         IN  IF rangeOrder(pivot, sorted[mid]) < 0
             THEN BinarySearch(sorted, pivot, left, mid)
             ELSE BinarySearch(sorted, pivot, mid + 1, right)

InsertAt(seq, pos, x) == SubSeq(seq, 1, pos - 1) \o <<x>> \o SubSeq(seq, pos, Len(seq))

RECURSIVE InsertRest(_, _)
InsertRest(sorted, rest) ==
    IF rest = <<>> THEN sorted
    ELSE LET pos == BinarySearch(sorted, Head(rest), 1, Len(sorted) + 1)
         IN  InsertRest(InsertAt(sorted, pos, Head(rest)), Tail(rest))

sort(arr) ==
    IF Len(arr) < 2 THEN arr
    ELSE LET desc == rangeOrder(arr[2], arr[1]) < 0
             n == RunLength(arr, desc, 3)
             run == IF desc THEN Reverse(SubSeq(arr, 1, n)) ELSE SubSeq(arr, 1, n)
         IN  InsertRest(run, SubSeq(arr, n + 1, Len(arr)))

RECURSIVE ReduceHighest(_, _)
ReduceHighest(highest, rest) ==
    IF rest = <<>> THEN highest
    ELSE ReduceHighest(IF gt(Head(rest).v, highest.v) THEN Head(rest) ELSE highest,
                       Tail(rest))

findHighestSemverVersion(ranges) ==
    LET exactVersions == SelectSeq(ranges, valid)
    IN  IF Len(exactVersions) > 0
        THEN ReduceHighest(exactVersions[1], exactVersions)
        ELSE sort(ranges)[1]

\* Object.keys(data.versions).sort((a, b) => semver.compare(b, a))
RECURSIVE SortDesc(_)
SortDesc(S) ==
    IF S = {} THEN <<>>
    ELSE LET top == CHOOSE v \in S : \A w \in S : compare(v, w) >= 0
         IN  <<top>> \o SortDesc(S \ {top})

\* the loop that narrows `intersection` over ranges[1..]: the last value of
\* `intersection`, NoStr when validRange gave null (hasValidIntersection = false)
RECURSIVE IntersectLoop(_, _, _)
IntersectLoop(intersection, ranges, i) ==
    IF i > Len(ranges) THEN intersection
    ELSE LET next == validRange(<<intersection, ranges[i]>>)
         IN  IF next = NoStr THEN NoStr ELSE IntersectLoop(next, ranges, i + 1)

Resolution(version, conflict, type, count) ==
    [resolvedVersion |-> version, hasConflict |-> conflict,
     resolutionType |-> type, availableVersionsCount |-> count]

NoResolution == Resolution(NoStr, FALSE, "none", 0)

\* the promise of resolveVersionConflict rejects instead of resolving
Rejected == Resolution(NoStr, FALSE, "rejected", 0)

\* findVersionIntersection, given what getPackageVersionsFromRegistry returned
findVersionIntersection(ranges, availableVersions) ==
    LET processedRanges == [i \in 1..Len(ranges) |->
                               IF ranges[i] = Star THEN Norm(<<Comp(">=", NoVer)>>)
                               ELSE ranges[i]]
        intersection == validRange(processedRanges)
    IN  IF intersection = NoStr THEN NoStr
        ELSE LET best == maxSatisfying(availableVersions, intersection)
             IN  IF Truthy(best) THEN best ELSE intersection

\* the number of requirements the scoring loop counts as satisfied by version
SatisfiedCount(version, ranges) ==
    Cardinality({i \in 1..Len(ranges) :
        \/ ranges[i] = Star
        \/ ~Parses(ranges[i])                    \* reqObj is null
        \/ satisfies(version, ranges[i])})

BestMatch(version, satisfiedCount, threw) ==
    [version |-> version, satisfiedCount |-> satisfiedCount, threw |-> threw]

\* line 539: semver.gt is evaluated when the counts are equal, outside any
\* try; it throws TypeError on a string that is no version
gtThrows(version, satisfiedCount, bestMatch) ==
    /\ satisfiedCount = bestMatch.satisfiedCount
    /\ ~IsSemver(version) \/ ~IsSemver(bestMatch.version)

\* the scoring loop: bestMatch after the versions from index i on
RECURSIVE ScoreLoop(_, _, _, _)
ScoreLoop(bestMatch, availableVersions, ranges, i) ==
    IF i > Len(availableVersions) THEN bestMatch
    ELSE LET version == availableVersions[i]
             satisfiedCount == SatisfiedCount(version, ranges)
             better == \/ satisfiedCount > bestMatch.satisfiedCount
                       \/ /\ satisfiedCount = bestMatch.satisfiedCount
                          /\ gt(version, bestMatch.version)
             newBest == IF better
                        THEN BestMatch(version, satisfiedCount, FALSE)
                        ELSE bestMatch
         IN  IF gtThrows(version, satisfiedCount, bestMatch)
             THEN BestMatch(version, satisfiedCount, TRUE)
             ELSE IF satisfiedCount = Len(ranges) THEN newBest
             ELSE ScoreLoop(newBest, availableVersions, ranges, i + 1)

\* resolveVersionConflict from "Step 2" on, given the version list
bestCompromise(ranges, availableVersions) ==
    IF Len(availableVersions) = 0
    THEN Resolution(findHighestSemverVersion(ranges), TRUE, "no-versions-fallback", 0)
    ELSE LET bestMatch == ScoreLoop(BestMatch(availableVersions[1], 0, FALSE),
                                    availableVersions, ranges, 1)
         IN  IF bestMatch.threw THEN Rejected
             ELSE IF bestMatch.satisfiedCount > 0
             THEN Resolution(Exact(bestMatch.version), TRUE, "best-compromise",
                             Len(availableVersions))
             ELSE Resolution(findHighestSemverVersion(ranges), TRUE, "highest-required",
                             Len(availableVersions))

-----------------------------------------------------------------------------
(* Registry client: getPackageVersionsFromRegistry (part_002) *)

FetchOutcomes == {"ok", "http_error", "network_error", "malformed_body"}

NoCache == [has |-> FALSE, versions |-> <<>>]

\* line 674: the comparison function of the sort runs when there are two
\* keys or more, and semver.compare throws on a key that is no version
sortThrows(pub) == Cardinality(pub) >= 2 /\ ~(\A v \in pub : IsSemver(v))

\* lines 652-679 throw: fetch rejects, the status is not ok, response.json()
\* rejects, or the sort throws
tryThrows(fetched, pub) == fetched # "ok" \/ sortThrows(pub)

\* what the call returns once the registry has answered with `fetched`
fetchResult(fetched, pub) == IF tryThrows(fetched, pub) THEN <<>> ELSE SortDesc(pub)

fetchRejectsOnError(fetched, pub) == tryThrows(fetched, pub)

\* whether the call rejects: never, lines 680-683 catch whatever lines
\* 652-679 throw and return []
fetchRejects(fetched, pub) == FALSE

\* a client that keeps nothing
cacheNothing(cache, dep, fetched, pub) == cache

\* packageVersionCache.set(packageName, versions) on a successful fetch only
cacheAfterFetch(cache, dep, fetched, pub) ==
    IF tryThrows(fetched, pub)
    THEN cache
    ELSE [cache EXCEPT ![dep] = [has |-> TRUE, versions |-> SortDesc(pub)]]

-----------------------------------------------------------------------------
(* Requirement collector and dispatch: collectPeerDependencies (part_002) *)

Deps == {"react", "eslint"}

V(a, b, c) == <<a, b, c>>

\* a requirement that does not say which member it comes from
requirementOfRoot(pkg, dep) ==
    [requiredBy |-> "root", versionRange |-> pkg.peerDependencies[dep]]

\* lines 368-371: { requiredBy: pkg.name, versionRange }
requirement(pkg, dep) ==
    [requiredBy |-> pkg.name, versionRange |-> pkg.peerDependencies[dep]]

\* the loop over packages: the requirements of dep, in discovery order
RECURSIVE collectRequirements(_, _)
collectRequirements(pkgs, dep) ==
    IF pkgs = <<>> THEN <<>>
    ELSE (IF Head(pkgs).peerDependencies[dep] # NoStr
          THEN <<requirement(Head(pkgs), dep)>>
          ELSE <<>>) \o collectRequirements(Tail(pkgs), dep)

rangesOf(requirements) == [i \in 1..Len(requirements) |-> requirements[i].versionRange]

NoReport == [present |-> FALSE, requirements |-> <<>>, resolvedVersion |-> NoStr,
             resolution |-> "none", availableVersionsCount |-> 0]

Task(at, inflight, res) == [pc |-> at, inflight |-> inflight, res |-> res]

NoTask == Task("none", FALSE, NoResolution)

\* resolveVersionConflict up to its first await: the state the promise of dep
\* is left in, `miss` telling whether its registry call misses the cache
startTask(requirements, miss) ==
    LET ranges == rangesOf(requirements)
        intersection == IntersectLoop(ranges[1], ranges, 2)
        hasValidIntersection == intersection # NoStr
    IN  IF hasValidIntersection /\ valid(intersection)
        THEN Task("settled", FALSE, Resolution(intersection, FALSE, "exact-match", 0))
        ELSE IF hasValidIntersection
        THEN Task("fetch1", miss, NoResolution)
        ELSE Task("fetch2", miss, NoResolution)

\* a fast path that is never taken
fastPathNever(requirements) == FALSE

\* line 385: only one requirement, no conflict to resolve
fastPath(requirements) == Len(requirements) = 1

\* whether dispatching dep issues a network fetch
issuesFetch(t) == t.pc \in {"fetch1", "fetch2"} /\ t.inflight

\* lines 353-406: collect, take the fast path, dispatch one promise per conflict
CollectPeerDependencies ==
    /\ pc = "collect"
    /\ impl = "legacy"
    /\ cpc = "start"
    /\ LET all == [d \in Deps |-> collectRequirements(packages, d)]
           started == [d \in Deps |->
                          IF Len(all[d]) >= 1 /\ ~fastPath(all[d])
                          THEN startTask(all[d], ~packageVersionCache[d].has)
                          ELSE NoTask]
       IN  /\ allPeerDeps' = all
           /\ resolvedPeerDeps' = [d \in Deps |->
                 IF Len(all[d]) >= 1 /\ fastPath(all[d])
                 THEN all[d][1].versionRange ELSE NoStr]
           /\ task' = started
           /\ fetchCount' = [d \in Deps |->
                 fetchCount[d] + (IF issuesFetch(started[d]) THEN 1 ELSE 0)]
    /\ cpc' = "awaiting"
    /\ UNCHANGED <<packages, published, conflictReport, outcome, packageVersionCache,
                   lastFetch>>
    /\ UNCHANGED ivars

\* lines 453-468: the registry answers the call made by findVersionIntersection
VersionIntersectionAnswered(dep) ==
    /\ pc = "collect"
    /\ cpc = "awaiting"
    /\ task[dep].pc = "fetch1"
    /\ \E fetched \in FetchOutcomes :
         LET hit == ~task[dep].inflight
             versions == IF hit THEN packageVersionCache[dep].versions
                         ELSE fetchResult(fetched, published)
             cache == IF hit THEN packageVersionCache
                      ELSE cacheAfterFetch(packageVersionCache, dep, fetched, published)
             threw == ~hit /\ fetchRejects(fetched, published)      \* caught, line 465
             resolvedVersion == findVersionIntersection(rangesOf(allPeerDeps[dep]), versions)
         IN  /\ packageVersionCache' = cache
             /\ lastFetch' = IF hit THEN lastFetch ELSE [lastFetch EXCEPT ![dep] = fetched]
             /\ IF ~threw /\ Truthy(resolvedVersion)
                THEN /\ task' = [task EXCEPT ![dep] =
                            Task("settled", FALSE,
                                 Resolution(resolvedVersion, FALSE, "intersection", 0))]
                     /\ UNCHANGED fetchCount
                ELSE /\ task' = [task EXCEPT ![dep] = Task("fetch2", ~cache[dep].has,
                                                           NoResolution)]
                     /\ fetchCount' = [fetchCount EXCEPT ![dep] =
                            @ + (IF cache[dep].has THEN 0 ELSE 1)]
    /\ UNCHANGED <<packages, published, allPeerDeps, resolvedPeerDeps, conflictReport,
                   outcome, cpc>>
    /\ UNCHANGED ivars

\* lines 474-573: the registry answers the call of the best-compromise search
CompromiseAnswered(dep) ==
    /\ pc = "collect"
    /\ cpc = "awaiting"
    /\ task[dep].pc = "fetch2"
    /\ \E fetched \in FetchOutcomes :
         LET hit == ~task[dep].inflight
             versions == IF hit THEN packageVersionCache[dep].versions
                         ELSE fetchResult(fetched, published)
             ranges == rangesOf(allPeerDeps[dep])
             threw == ~hit /\ fetchRejects(fetched, published)      \* caught, line 479
             resolution == IF threw
                           THEN Resolution(findHighestSemverVersion(ranges), TRUE,
                                           "highest-required-fallback", 0)
                           ELSE bestCompromise(ranges, versions)
         IN  /\ packageVersionCache' =
                   (IF hit THEN packageVersionCache
                    ELSE cacheAfterFetch(packageVersionCache, dep, fetched, published))
             /\ lastFetch' = IF hit THEN lastFetch ELSE [lastFetch EXCEPT ![dep] = fetched]
             /\ task' = [task EXCEPT ![dep] =
                   IF resolution = Rejected THEN Task("rejected", FALSE, Rejected)
                   ELSE Task("settled", FALSE, resolution)]
    /\ UNCHANGED <<packages, published, allPeerDeps, resolvedPeerDeps, conflictReport,
                   outcome, fetchCount, cpc>>
    /\ UNCHANGED ivars

\* lines 392-404: the .then callback of the promise of dep
ResolutionStored(dep) ==
    /\ pc = "collect"
    /\ cpc = "awaiting"
    /\ task[dep].pc = "settled"
    /\ LET resolution == task[dep].res
       IN  /\ resolvedPeerDeps' = [resolvedPeerDeps EXCEPT ![dep] = resolution.resolvedVersion]
           /\ conflictReport' = [conflictReport EXCEPT ![dep] =
                 IF resolution.hasConflict
                 THEN [present |-> TRUE, requirements |-> allPeerDeps[dep],
                       resolvedVersion |-> resolution.resolvedVersion,
                       resolution |-> resolution.resolutionType,
                       availableVersionsCount |-> resolution.availableVersionsCount]
                 ELSE @]
           /\ outcome' = [outcome EXCEPT ![dep] = resolution]
    /\ task' = [task EXCEPT ![dep] = Task("done", FALSE, NoResolution)]
    /\ UNCHANGED <<packages, published, allPeerDeps, packageVersionCache, fetchCount,
                   lastFetch, cpc>>
    /\ UNCHANGED ivars

\* line 410: Promise.all rejects with the rejection of a promise, and so
\* does collectPeerDependencies; handleInstall goes to its catch
CollectRaise ==
    /\ pc = "collect"
    /\ cpc = "awaiting"
    /\ \E d \in Deps : task[d].pc = "rejected"
    /\ cpc' = "raised"
    /\ pc' = IF driver = "handleInstall" THEN "catch" ELSE pc
    /\ UNCHANGED <<packages, published, allPeerDeps, resolvedPeerDeps, conflictReport,
                   outcome, packageVersionCache, fetchCount, lastFetch, task>>
    /\ UNCHANGED <<driver, impl, pm, monorepoFs, manifest, backup, fileCache, peerDeps, rs,
                   original, written, backedUp, pre, hist>>

\* returns resolvedPeerDeps without waiting for the promises
CollectReturnEarly ==
    /\ pc = "collect"
    /\ cpc = "awaiting"
    /\ cpc' = "returned"
    /\ peerDeps' = resolvedPeerDeps
    /\ pc' = IF driver = "handleInstall" THEN "backup" ELSE pc
    /\ UNCHANGED <<packages, published, allPeerDeps, resolvedPeerDeps, conflictReport,
                   outcome, packageVersionCache, fetchCount, lastFetch, task>>
    /\ UNCHANGED <<driver, impl, pm, monorepoFs, manifest, backup, fileCache, rs,
                   original, written, backedUp, pre, hist>>

\* lines 408-416: Promise.all has settled; report and return resolvedPeerDeps
CollectReturn ==
    /\ pc = "collect"
    /\ cpc = "awaiting"
    /\ \A d \in Deps : task[d].pc \in {"none", "done"}
    /\ cpc' = "returned"
    /\ peerDeps' = resolvedPeerDeps                      \* handleInstall, line 192
    /\ pc' = IF driver = "handleInstall" THEN "backup" ELSE pc
    /\ UNCHANGED <<packages, published, allPeerDeps, resolvedPeerDeps, conflictReport,
                   outcome, packageVersionCache, fetchCount, lastFetch, task>>
    /\ UNCHANGED <<driver, impl, pm, monorepoFs, manifest, backup, fileCache, rs,
                   original, written, backedUp, pre, hist>>

-----------------------------------------------------------------------------
(* package.json: the parsed object and the file *)

PkgNames == Deps \cup {"styled-components"}

NoEntries == [n \in PkgNames |-> NoStr]

\* The parsed manifest.  `keys` holds the object-valued keys that are present;
\* a name -> version map has NoStr where the name has no entry.
EmptyJson ==
    [keys |-> {},
     dependencies |-> NoEntries,
     devDependencies |-> NoEntries,
     legacy_peer_deps |-> FALSE,          \* npmConfig.legacy_peer_deps
     resolutions |-> NoEntries,
     overrides |-> NoEntries,             \* pnpm.overrides
     allowedVersions |-> NoEntries,       \* pnpm.peerDependencyRules.allowedVersions
     ignoreMissing |-> <<>>,              \* pnpm.peerDependencyRules.ignoreMissing
     hoistingLimits |-> FALSE,            \* pnpm.hoistingLimits = "workspaces"
     workspaces |-> "none",               \* "none", "array" or "object"
     nohoist |-> <<>>]                    \* workspaces.nohoist

\* A file: its parsed content, and whether its text is what
\* JSON.stringify(content, null, 2) prints ("indent2") or not ("other": other
\* indentation, a final newline, ...)
File(fmt, json) == [fmt |-> fmt, json |-> json]

\* JSON.stringify(value, null, 2): a property set on an array is not printed
stringify(json) ==
    File("indent2",
         IF json.workspaces = "array"
         THEN [json EXCEPT !.nohoist = <<>>, !.keys = @ \ {"nohoist"}]
         ELSE json)

\* JSON.parse(content)
parse(file) == file.json

NoFile == File("none", EmptyJson)

Absent == [exists |-> FALSE, content |-> NoFile]

OnDisk(file) == [exists |-> TRUE, content |-> file]

\* package.json and package.json.backup together
Disk(file, sidecar) == [manifest |-> file, backup |-> sidecar]

\* fileCache.get("./package.json")
NoCachedFile == [has |-> FALSE, json |-> EmptyJson]

Cached(json) == [has |-> TRUE, json |-> json]

-----------------------------------------------------------------------------
(* Manifest mutator (part_002): detection helpers and the merge *)

KNOWN_CRITICAL_DEPS ==
    <<"react", "react-dom", "@types/react", "@types/react-dom", "vue",
      "@vue/runtime-core", "typescript", "@types/node", "webpack", "@types/webpack",
      "styled-components", "@emotion/react", "next", "nuxt", "graphql",
      "@apollo/client", "rxjs", "lodash">>

\* package -> peers, in the order Object.entries yields them
KNOWN_PROBLEMATIC_PACKAGES ==
    <<[pkg |-> "react-redux", peers |-> <<"react", "redux">>],
      [pkg |-> "@mui/material", peers |-> <<"react", "react-dom">>],
      [pkg |-> "styled-components", peers |-> <<"react", "react-dom">>],
      [pkg |-> "vuex", peers |-> <<"vue">>],
      [pkg |-> "vue-router", peers |-> <<"vue">>],
      [pkg |-> "graphql-tag", peers |-> <<"graphql">>]>>

\* { ...packageJson.dependencies, ...packageJson.devDependencies }[name] is truthy
inAllDependencies(json, name) ==
    /\ name \in PkgNames
    /\ (Truthy(json.devDependencies[name]) \/ Truthy(json.dependencies[name]))

IsCriticalNever(json, name) == FALSE

IsCritical(json, name) == inAllDependencies(json, name)

detectCriticalDependencies(json) ==
    SelectSeq(KNOWN_CRITICAL_DEPS, LAMBDA dep : IsCritical(json, dep))

\* the "<package> > <peer>" entries of the problematic packages that are
\* present, for the peers that are absent
RECURSIVE missingPeers(_, _, _)
missingPeers(json, pkg, peers) ==
    IF peers = <<>> THEN <<>>
    ELSE (IF inAllDependencies(json, Head(peers)) THEN <<>> ELSE <<<<pkg, Head(peers)>>>>)
         \o missingPeers(json, pkg, Tail(peers))

RECURSIVE problematicEntries(_, _)
problematicEntries(json, table) ==
    IF table = <<>> THEN <<>>
    ELSE (IF inAllDependencies(json, Head(table).pkg)
          THEN missingPeers(json, Head(table).pkg, Head(table).peers)
          ELSE <<>>) \o problematicEntries(json, Tail(table))

detectProblematicPackages(json) == problematicEntries(json, KNOWN_PROBLEMATIC_PACKAGES)

\* detectMonorepo, on the cached package.json and the directory
detectMonorepo(json, fs) == json.workspaces # "none" \/ fs

\* list.push(x)
pushAlways(list, x) == Append(list, x)

\* if (!list.includes(x)) list.push(x)
pushUnlessIncluded(list, x) == IF InSeq(x, list) THEN list ELSE Append(list, x)

\* list.push(x) unless list.includes(x), for every x of `items`
RECURSIVE pushMissing(_, _)
pushMissing(list, items) ==
    IF items = <<>> THEN list
    ELSE pushMissing(pushUnlessIncluded(list, Head(items)), Tail(items))

\* adds the resolved names that devDependencies lacks
addToDevDependenciesAlways(json, resolved) ==
    [json EXCEPT
        !.keys = @ \cup {"devDependencies"},
        !.devDependencies = [n \in PkgNames |->
            IF n \in Deps /\ Truthy(resolved[n]) /\ ~Truthy(json.devDependencies[n])
            THEN resolved[n] ELSE @[n]]]

\* lines 788-800: add the resolved names that are in neither section
addToDevDependencies(json, resolved) ==
    [json EXCEPT
        !.keys = @ \cup {"devDependencies"},
        !.devDependencies = [n \in PkgNames |->
            IF /\ n \in Deps
               /\ Truthy(resolved[n])
               /\ ~Truthy(json.dependencies[n])
               /\ ~Truthy(json.devDependencies[n])
            THEN resolved[n] ELSE @[n]]]

\* a fresh object holding the entries of the resolved map only
assignFresh(map, resolved) ==
    [n \in PkgNames |-> IF n \in Deps /\ resolved[n] # NoStr THEN resolved[n] ELSE NoStr]

\* assigns the names that have no entry yet
assignAbsent(map, resolved) ==
    [n \in PkgNames |-> IF n \in Deps /\ resolved[n] # NoStr /\ map[n] = NoStr
                        THEN resolved[n] ELSE map[n]]

\* obj[dep] = version for every entry of the resolved map
assignAll(map, resolved) ==
    [n \in PkgNames |-> IF n \in Deps /\ resolved[n] # NoStr THEN resolved[n] ELSE map[n]]

\* lines 812-863: the block of the package manager
packageManagerConfig(json, resolved, manager, criticalDeps, problematic) ==
    CASE manager = "npm" ->
            [json EXCEPT !.keys = @ \cup {"npmConfig"}, !.legacy_peer_deps = TRUE]
      [] manager = "yarn" ->
            [json EXCEPT !.keys = @ \cup {"resolutions"},
                         !.resolutions = assignAll(@, resolved)]
      [] manager = "pnpm" ->
            [json EXCEPT
                !.keys = @ \cup {"pnpm", "overrides", "peerDependencyRules",
                                 "allowedVersions", "ignoreMissing"},
                !.overrides = assignAll(@, resolved),
                !.allowedVersions = [n \in PkgNames |->
                    IF n \in Deps /\ resolved[n] # NoStr /\ InSeq(n, criticalDeps)
                    THEN resolved[n] ELSE @[n]],
                !.ignoreMissing = pushMissing(@, problematic)]
      [] OTHER -> json

\* lines 866-888: the monorepo extras
monorepoConfig(json, manager, criticalDeps) ==
    LET hoisted == IF manager = "pnpm"
                   THEN [json EXCEPT !.keys = @ \cup {"pnpm"}, !.hoistingLimits = TRUE]
                   ELSE json
    IN  IF manager = "yarn" /\ json.workspaces # "none"
        THEN [hoisted EXCEPT !.keys = @ \cup {"nohoist"},
                             !.nohoist = pushMissing(@, criticalDeps)]
        ELSE hoisted

\* lines 788-888 of createTemporaryPackageJson: packageJson after the merge
mergeLegacy(json, resolved, manager, fs) ==
    LET added == addToDevDependencies(json, resolved)
        criticalDeps == detectCriticalDependencies(added)
        isMonorepo == detectMonorepo(added, fs)
        problematic == detectProblematicPackages(added)
        configured == packageManagerConfig(added, resolved, manager, criticalDeps,
                                           problematic)
    IN  IF isMonorepo THEN monorepoConfig(configured, manager, criticalDeps)
        ELSE configured

-----------------------------------------------------------------------------
(* Manifest mutator (src/index.ts): the merge *)

\* `^${version}`
caretPrefix(version) == IF version.k = "exact" THEN Caret(version.v) ELSE Bad

isEmptyMap(resolved) == \A n \in Deps : resolved[n] = NoStr

\* the three branches of the loop at lines 928-946, for one package
tsUpdatesDependencies(json, resolved, n) ==
    /\ Truthy(json.dependencies[n])
    /\ json.dependencies[n] # caretPrefix(resolved[n])

tsUpdatesDevDependencies(json, resolved, n) ==
    /\ ~tsUpdatesDependencies(json, resolved, n)
    /\ Truthy(json.devDependencies[n])
    /\ json.devDependencies[n] # caretPrefix(resolved[n])

tsAddsDependency(json, resolved, n) ==
    /\ ~tsUpdatesDependencies(json, resolved, n)
    /\ ~tsUpdatesDevDependencies(json, resolved, n)
    /\ ~Truthy(json.dependencies[n])
    /\ ~Truthy(json.devDependencies[n])

tsTouched(json, resolved) ==
    {n \in Deps : /\ resolved[n] # NoStr
                  /\ \/ tsUpdatesDependencies(json, resolved, n)
                     \/ tsUpdatesDevDependencies(json, resolved, n)
                     \/ tsAddsDependency(json, resolved, n)}

\* updatedCount
updatedCount(json, resolved) == Cardinality(tsTouched(json, resolved))

\* lines 925-946: tempPackageJson after the loop
mergeTs(json, resolved) ==
    LET touched == tsTouched(json, resolved)
    IN  [json EXCEPT
            !.keys = @ \cup (IF \E n \in touched : tsAddsDependency(json, resolved, n)
                             THEN {"dependencies"} ELSE {}),
            !.dependencies = [n \in PkgNames |->
                IF n \in touched /\ (tsUpdatesDependencies(json, resolved, n)
                                     \/ tsAddsDependency(json, resolved, n))
                THEN caretPrefix(resolved[n]) ELSE @[n]],
            !.devDependencies = [n \in PkgNames |->
                IF n \in touched /\ tsUpdatesDevDependencies(json, resolved, n)
                THEN caretPrefix(resolved[n]) ELSE @[n]]]

\* the cached object after the merge: tempPackageJson is a shallow copy, so
\* the sections that existed are shared and a new `dependencies` object is not
cacheAfterMergeTs(json, resolved) ==
    LET merged == mergeTs(json, resolved)
    IN  [json EXCEPT
            !.dependencies = IF "dependencies" \in json.keys
                             THEN merged.dependencies ELSE @,
            !.devDependencies = merged.devDependencies]

-----------------------------------------------------------------------------
(* The resolver on its own: every workspace of up to MaxMembers members *)

MemberNames == <<"root", "pkg-a", "pkg-b", "pkg-c", "pkg-d">>

ReactRanges == {Exact(V(16, 0, 0)), Caret(V(16, 0, 0)), Caret(V(18, 0, 0)),
                Tilde(V(16, 1, 0)), Hyphen(V(16, 0, 0), V(16, 1, 0)), Star, Bad}

EslintRanges == {Caret(V(16, 0, 0)), Bad}

PeerMaps == {[d \in Deps |-> IF d = "react" THEN r ELSE l] :
                r \in ReactRanges \cup {NoStr}, l \in EslintRanges \cup {NoStr}}

Registries == {{}, {NoSemver}, {V(18, 2, 0)}, {V(16, 1, 0), V(18, 0, 0)},
               {V(16, 0, 0), V(16, 1, 0), V(18, 0, 0), V(18, 2, 0)}}

Workspaces(n) ==
    {[i \in 1..n |-> [name |-> MemberNames[i], peerDependencies |-> maps[i]]] :
        maps \in [1..n -> PeerMaps]}

InitResolver ==
    /\ \E n \in 1..MaxMembers : packages \in Workspaces(n)
    /\ published \in Registries
    /\ allPeerDeps = [d \in Deps |-> <<>>]
    /\ resolvedPeerDeps = [d \in Deps |-> NoStr]
    /\ conflictReport = [d \in Deps |-> NoReport]
    /\ outcome = [d \in Deps |-> NoResolution]
    /\ packageVersionCache = [d \in Deps |-> NoCache]
    /\ fetchCount = [d \in Deps |-> 0]
    /\ lastFetch = [d \in Deps |-> "none"]
    /\ task = [d \in Deps |-> NoTask]
    /\ cpc = "start"
    /\ driver = "collector"
    /\ impl = "legacy"
    /\ pm = "npm"
    /\ monorepoFs = FALSE
    /\ manifest = stringify(EmptyJson)
    /\ backup = Absent
    /\ fileCache = NoCachedFile
    /\ peerDeps = [d \in Deps |-> NoStr]
    /\ pc = "collect"
    /\ rs = "idle"
    /\ original = Disk(stringify(EmptyJson), Absent)
    /\ written = FALSE
    /\ backedUp = FALSE
    /\ pre = Disk(stringify(EmptyJson), Absent)
    /\ hist = <<>>

NextResolver ==
    \/ CollectPeerDependencies
    \/ \E dep \in Deps : VersionIntersectionAnswered(dep)
    \/ \E dep \in Deps : CompromiseAnswered(dep)
    \/ \E dep \in Deps : ResolutionStored(dep)
    \/ CollectRaise
    \/ CollectReturn

SpecResolver == InitResolver /\ [][NextResolver]_vars

-----------------------------------------------------------------------------
(* Properties of the resolver *)

Returned == cpc = "returned"

Resolved(d) == task[d].pc = "done"

\* the versions that satisfy every range of a group, as the ranges read:
\* `ranges` collapses to the single version v
CollapsesTo(ranges, v) ==
    /\ \A i \in 1..Len(ranges) : Parses(ranges[i]) /\ satisfies(v, ranges[i])
    /\ \E i \in 1..Len(ranges) : ranges[i] = Exact(v)

\* the number of requirements a version satisfies: * always, an unparseable
\* range never
Satisfying(v, ranges) ==
    Cardinality({i \in 1..Len(ranges) : ranges[i] = Star \/ satisfies(v, ranges[i])})

\* C8: a requirement group of exactly one requirement resolves to that
\* requirement's range verbatim, gets no conflict-report entry, starts no
\* resolution task and issues no registry fetch.
C8_SingleRequirementVerbatim ==
    \A d \in Deps :
        (cpc # "start" /\ Len(allPeerDeps[d]) = 1) =>
            /\ resolvedPeerDeps[d] = allPeerDeps[d][1].versionRange
            /\ ~conflictReport[d].present
            /\ task[d].pc = "none"
            /\ fetchCount[d] = 0

\* a run has returned in which react has one requirement, an unparseable range,
\* next to an eslint group that went through conflict resolution
C8_Witness ==
    /\ Returned
    /\ Len(allPeerDeps["react"]) = 1
    /\ resolvedPeerDeps["react"] = Bad
    /\ Len(allPeerDeps["eslint"]) = 2
    /\ fetchCount["eslint"] = 1

\* C9: a group of two or more requirements whose ranges collapse to one exact
\* version v resolves to v with strategy intersection or exact-match and
\* without any registry fetch.
C9_ExactIntersectionWithoutRegistry ==
    \A d \in Deps : \A i \in 1..Len(allPeerDeps[d]) :
        LET ranges == rangesOf(allPeerDeps[d])
            v == ranges[i].v
        IN  (Resolved(d) /\ Len(ranges) >= 2 /\ ranges[i].k = "exact"
                /\ CollapsesTo(ranges, v)) =>
                /\ outcome[d].resolvedVersion = Exact(v)
                /\ outcome[d].resolutionType \in {"intersection", "exact-match"}
                /\ fetchCount[d] = 0

\* C10: with two or more requirements, a non-empty version list from the
\* registry and no published version satisfying every requirement, the result
\* is best-compromise with a published version of maximal satisfied count,
\* the highest version among those of maximal count.
C10_BestCompromiseMaximal ==
    \A d \in Deps :
        LET ranges == rangesOf(allPeerDeps[d])
            listed == packageVersionCache[d].versions
            pub == {listed[i] : i \in 1..Len(listed)}
        IN  (Resolved(d) /\ Len(ranges) >= 2 /\ packageVersionCache[d].has /\ pub # {}
                /\ \A v \in pub : Satisfying(v, ranges) < Len(ranges)) =>
                /\ outcome[d].resolutionType = "best-compromise"
                /\ \E v \in pub :
                     /\ outcome[d].resolvedVersion = Exact(v)
                     /\ \A w \in pub : Satisfying(w, ranges) <= Satisfying(v, ranges)
                     /\ \A w \in pub : Satisfying(w, ranges) = Satisfying(v, ranges)
                                          => compare(v, w) >= 0

\* C11: collectPeerDependencies never raises, whatever the registry answers
\* and whatever the range strings are, and when it has returned its result
\* has a resolved version for every dependency name it collected.
C11_ResolutionNeverFails ==
    /\ cpc # "raised"
    /\ Returned => \A d \in Deps :
                      Len(allPeerDeps[d]) >= 1 => Truthy(resolvedPeerDeps[d])

\* the list getPackageVersionsFromRegistry handed to the resolution of d
Listed(d) ==
    IF lastFetch[d] = "ok" /\ packageVersionCache[d].has
    THEN packageVersionCache[d].versions ELSE <<>>

\* the resolution of d went past the intersection steps
FellBack(d) ==
    /\ Resolved(d)
    /\ Len(allPeerDeps[d]) >= 2
    /\ outcome[d].resolutionType \notin {"exact-match", "intersection"}

HighestRequired(d, type) ==
    /\ outcome[d].resolutionType = type
    /\ outcome[d].resolvedVersion = findHighestSemverVersion(rangesOf(allPeerDeps[d]))

\* C12: for a group that went past the intersection steps: when the fetch
\* failed the strategy is highest-required-fallback; when the fetch succeeded
\* with zero versions it is no-versions-fallback; when versions exist and none
\* satisfies any requirement it is highest-required; in the three cases the
\* resolved version is what findHighestSemverVersion picks from the ranges.
C12_FallbackLabels ==
    \A d \in Deps :
        FellBack(d) =>
            /\ lastFetch[d] \in {"network_error", "http_error"}
                  => HighestRequired(d, "highest-required-fallback")
            /\ (lastFetch[d] = "ok" /\ Listed(d) = <<>>)
                  => HighestRequired(d, "no-versions-fallback")
            /\ (/\ lastFetch[d] = "ok"
                /\ Listed(d) # <<>>
                /\ \A i \in 1..Len(Listed(d)) :
                      SatisfiedCount(Listed(d)[i], rangesOf(allPeerDeps[d])) = 0)
                  => HighestRequired(d, "highest-required")

\* the registry call made last for d threw inside its try block
FetchFailed(d) == lastFetch[d] # "none" /\ tryThrows(lastFetch[d], published)

\* what the resolution of d comes to when the version list is empty
EmptyListOutcomes(d) ==
    LET ranges == rangesOf(allPeerDeps[d])
    IN  {Resolution(findVersionIntersection(ranges, <<>>), FALSE, "intersection", 0),
         bestCompromise(ranges, <<>>)}

\* C16: getPackageVersionsFromRegistry never raises to its caller: when the
\* request fails, the status is not ok, or the body cannot be read, the caller
\* carries on with the empty list, so the resolution is never rejected and
\* its outcome is the one an empty version list gives.
C16_RegistryFetchNeverRaises ==
    \A d \in Deps :
        FetchFailed(d) =>
            /\ task[d].pc # "rejected"
            /\ task[d].pc = "settled" => task[d].res \in EmptyListOutcomes(d)
            /\ Resolved(d) => outcome[d] \in EmptyListOutcomes(d)

C16_Witness ==
    \E d \in Deps :
        /\ FetchFailed(d)
        /\ Resolved(d)
        /\ outcome[d].resolutionType = "no-versions-fallback"

\* C17: a result with strategy intersection is a published version that
\* satisfies every requirement of the group; when no published version
\* satisfies the intersected range (the registry may have returned none) the
\* resolution does not return with strategy intersection.
C17_IntersectionIsPublishedVersion ==
    \A d \in Deps :
        (Resolved(d) /\ outcome[d].resolutionType = "intersection") =>
            \E i \in 1..Len(Listed(d)) :
                /\ outcome[d].resolvedVersion = Exact(Listed(d)[i])
                /\ Satisfying(Listed(d)[i], rangesOf(allPeerDeps[d]))
                      = Len(allPeerDeps[d])

\* the resolution of d ran the scoring loop of lines 502-548
Scored(d) ==
    /\ Resolved(d)
    /\ outcome[d].resolutionType \in {"best-compromise", "highest-required"}

\* C18: in the best-compromise scoring the satisfied count of a candidate is
\* the number of requirements that are * or that the candidate satisfies: an
\* invalid or unparseable range never raises the count, a * range always
\* does; so a best-compromise result satisfies at least one requirement
\* that is * or valid.
C18_InvalidRangeNotSatisfied ==
    \A d \in Deps :
        Scored(d) =>
            LET ranges == rangesOf(allPeerDeps[d])
            IN  /\ \A i \in 1..Len(Listed(d)) :
                      SatisfiedCount(Listed(d)[i], ranges) = Satisfying(Listed(d)[i], ranges)
                /\ outcome[d].resolutionType = "best-compromise" =>
                      \E i \in 1..Len(Listed(d)) :
                          /\ outcome[d].resolvedVersion = Exact(Listed(d)[i])
                          /\ Satisfying(Listed(d)[i], ranges) >= 1

\* C19: every outcome of resolveVersionConflict has hasConflict = true,
\* except the exact intersection found without the registry (exact-match);
\* so an outcome produced by asking the registry for the greatest version in
\* a non-exact intersected range (intersection) has hasConflict = true, and
\* every such outcome has its entry in the conflict report.
C19_ConflictFlagExceptExact ==
    \A d \in Deps :
        (Resolved(d) /\ outcome[d].resolutionType # "exact-match") =>
            /\ outcome[d].hasConflict
            /\ conflictReport[d].present
            /\ conflictReport[d].resolution = outcome[d].resolutionType

\* a workspace of two members in front of a registry that stays silent
InitSilent ==
    /\ InitResolver
    /\ Len(packages) = 2
    /\ published = {}

\* a request that got no answer ends: line 660 passes no signal and no time
\* limit to fetch, so this is the fetch of the runtime giving up, and the call
\* goes to its catch
SilentIntersection(dep) ==
    VersionIntersectionAnswered(dep) /\ lastFetch'[dep] = "network_error"

SilentCompromise(dep) ==
    CompromiseAnswered(dep) /\ lastFetch'[dep] = "network_error"

NextSilent ==
    \/ CollectPeerDependencies
    \/ \E dep \in Deps : SilentIntersection(dep)
    \/ \E dep \in Deps : SilentCompromise(dep)
    \/ \E dep \in Deps : ResolutionStored(dep)
    \/ CollectReturn

\* the callbacks of the process: what the event loop runs once it can
Callbacks == (\E dep \in Deps : ResolutionStored(dep)) \/ CollectReturn

\* the run in front of the silent registry: the event loop runs every
\* callback that is ready; nothing in the source makes a request end
SpecSilent == InitSilent /\ [][NextSilent]_vars /\ WF_vars(Callbacks)

FallbackStrategies == {"highest-required-fallback", "no-versions-fallback", "highest-required"}

\* every dependency resolved after a request has a fallback strategy
EndsWithFallback ==
    \A d \in Deps :
        (Resolved(d) /\ fetchCount[d] > 0) => outcome[d].resolutionType \in FallbackStrategies

\* C27: no resolution blocks forever: when the registry never answers, each
\* request times out and counts as a failed fetch, the resolution of the
\* dependency ends with a fallback strategy, and collectPeerDependencies
\* returns in the end.
C27_NoResolutionBlocks ==
    (cpc = "awaiting") ~> (cpc = "returned" /\ EndsWithFallback)

-----------------------------------------------------------------------------
(* handleInstall: the install run, one action per I/O step.  The run is
   `epd install` with no package arguments: the external installer reads
   package.json and writes neither it nor the backup.  An I/O call that fails
   leaves its target as it was. *)

RestoreSites == {"restore", "fallback_restore", "catch"}

Terminal == {"done", "exit1"}

DiskNow == Disk(manifest, backup)

Record(op, ok, before, after) == [op |-> op, ok |-> ok, pre |-> before, post |-> after]

\* fs.copyFile(src, dest): what dest holds afterwards
copyFile(src, dest) == src

unlinkKeeps(file) == file

\* fs.unlink(path): the file afterwards
unlink(file) == Absent

backupFileBlank(i, file, cache) == stringify(EmptyJson)

\* what is written to package.json.backup: the re-serialised cached object
\* (part_002 line 786), a copy of the file (index.ts line 918)
backupFile(i, file, cache) == IF i = "legacy" THEN stringify(cache) ELSE copyFile(file, NoFile)

\* index.ts lines 920-923: return when the resolved map is empty
returnsAfterBackup(i, resolved) == i = "ts" /\ isEmptyMap(resolved)

\* whether fs.writeFile("package.json", ...) is called
writesManifest(i, cache, resolved) == i = "legacy" \/ updatedCount(cache, resolved) > 0

afterApplySwallowed(ok) == "install"

\* createTemporaryPackageJson returned or threw (handleInstall's catch)
afterApply(ok) == IF ok THEN "install" ELSE "catch"

\* the primary execSync returned or threw
afterInstall(i, ok) ==
    IF ok THEN "restore" ELSE IF i = "legacy" THEN "catch" ELSE "force"

afterForceSkipsRestore(ok) == IF ok THEN "done" ELSE "fallback"

\* index.ts lines 298-316: `install --force` returned (then `return`) or threw
afterForce(ok) == IF ok THEN "done" ELSE "fallback_restore"

\* index.ts lines 308-316: `install --legacy-peer-deps` returned or threw
afterFallback(ok) == IF ok THEN "done" ELSE "catch"

afterCopyIgnoresError(ok) == "unlink"

\* fs.copyFile inside restoreOriginalPackageJson resolved or rejected
afterCopy(ok) == IF ok THEN "unlink" ELSE "idle"

\* where the caller goes on when restoreOriginalPackageJson settles: part_002
\* rethrows (line 1009), index.ts only warns (line 966)
afterRestore(site, i, ok) ==
    CASE site = "restore" -> IF ok \/ i = "ts" THEN "done" ELSE "catch"
      [] site = "fallback_restore" -> "fallback"
      [] OTHER -> "exit1"

\* Promise.all([findWorkspacePackages, readPackageJsonWithCache]); the
\* workspace members found are `packages`
ReadPackageJson(ok) ==
    /\ driver = "handleInstall"
    /\ pc = "read"
    /\ fileCache' = IF ok THEN Cached(parse(manifest)) ELSE fileCache
    /\ pc' = IF ok THEN "collect" ELSE "catch"
    /\ UNCHANGED <<rvars, driver, impl, pm, monorepoFs, manifest, backup, peerDeps, rs,
                   original, written, backedUp, pre, hist>>

\* collectPeerDependencies of index.ts: the resolutions are exact published
\* versions of some of the packages
TsResolved == [Deps -> {NoStr} \cup {Exact(v) : v \in published}]

CollectTs(resolved) ==
    /\ pc = "collect"
    /\ impl = "ts"
    /\ resolved \in TsResolved
    /\ peerDeps' = resolved
    /\ pc' = "backup"
    /\ UNCHANGED <<rvars, driver, impl, pm, monorepoFs, manifest, backup, fileCache, rs,
                   original, written, backedUp, pre, hist>>

\* createTemporaryPackageJson up to the backup being on disk
ApplyBackup(ok) ==
    /\ pc = "backup"
    /\ pre' = DiskNow
    /\ backup' = IF ok THEN OnDisk(backupFile(impl, manifest, fileCache.json)) ELSE backup
    /\ backedUp' = (backedUp \/ ok)
    /\ IF ok /\ ~returnsAfterBackup(impl, peerDeps)
       THEN /\ pc' = "write"
            /\ hist' = hist
       ELSE /\ pc' = afterApply(ok)
            /\ hist' = Append(hist, Record("apply", ok, DiskNow, Disk(manifest, backup')))
    /\ UNCHANGED <<rvars, driver, impl, pm, monorepoFs, manifest, fileCache, peerDeps, rs,
                   original, written>>

\* createTemporaryPackageJson from the merge to its return
ApplyWrite(ok) ==
    /\ pc = "write"
    /\ LET merged == IF impl = "legacy"
                     THEN mergeLegacy(fileCache.json, peerDeps, pm, monorepoFs)
                     ELSE mergeTs(fileCache.json, peerDeps)
           writes == writesManifest(impl, fileCache.json, peerDeps)
       IN  /\ writes \/ ok
           /\ fileCache' = Cached(IF impl = "legacy" THEN merged
                                  ELSE cacheAfterMergeTs(fileCache.json, peerDeps))
           /\ manifest' = IF writes /\ ok THEN stringify(merged) ELSE manifest
           /\ written' = (written \/ (writes /\ ok))
    /\ hist' = Append(hist, Record("apply", ok, pre, Disk(manifest', backup)))
    /\ pc' = afterApply(ok)
    /\ UNCHANGED <<rvars, driver, impl, pm, monorepoFs, backup, peerDeps, rs, original,
                   backedUp, pre>>

\* execSync(command) of an installer; it leaves both files alone
Installer(op, ok, next) ==
    /\ hist' = Append(hist, Record(op, ok, DiskNow, DiskNow))
    /\ pc' = next
    /\ UNCHANGED <<rvars, driver, impl, pm, monorepoFs, manifest, backup, fileCache,
                   peerDeps, rs, original, written, backedUp, pre>>

InstallPrimary(ok) == pc = "install" /\ Installer("install", ok, afterInstall(impl, ok))

InstallForce(ok) == pc = "force" /\ Installer("force", ok, afterForce(ok))

InstallFallback(ok) == pc = "fallback" /\ Installer("fallback", ok, afterFallback(ok))

\* restoreOriginalPackageJson when existsSync("package.json.backup") is false
RestoreNoBackup ==
    /\ pc \in RestoreSites
    /\ rs = "idle"
    /\ ~backup.exists
    /\ hist' = Append(hist, Record("restore", TRUE, DiskNow, DiskNow))
    /\ pc' = afterRestore(pc, impl, TRUE)
    /\ UNCHANGED <<rvars, driver, impl, pm, monorepoFs, manifest, backup, fileCache,
                   peerDeps, rs, original, written, backedUp, pre>>

\* restoreOriginalPackageJson: the copy of the backup over package.json
RestoreCopy(ok) ==
    /\ pc \in RestoreSites
    /\ rs = "idle"
    /\ backup.exists
    /\ pre' = DiskNow
    /\ manifest' = IF ok THEN copyFile(backup.content, manifest) ELSE manifest
    /\ rs' = afterCopy(ok)
    /\ IF afterCopy(ok) = "unlink"
       THEN UNCHANGED <<pc, hist>>
       ELSE /\ hist' = Append(hist, Record("restore", FALSE, DiskNow, DiskNow))
            /\ pc' = afterRestore(pc, impl, FALSE)
    /\ UNCHANGED <<rvars, driver, impl, pm, monorepoFs, backup, fileCache, peerDeps,
                   original, written, backedUp>>

\* restoreOriginalPackageJson: the deletion of the backup
RestoreUnlink(ok) ==
    /\ pc \in RestoreSites
    /\ rs = "unlink"
    /\ backup' = IF ok THEN unlink(backup) ELSE backup
    /\ rs' = "idle"
    /\ hist' = Append(hist, Record("restore", ok, pre, Disk(manifest, backup')))
    /\ pc' = afterRestore(pc, impl, ok)
    /\ UNCHANGED <<rvars, driver, impl, pm, monorepoFs, manifest, fileCache, peerDeps,
                   original, written, backedUp, pre>>

-----------------------------------------------------------------------------
(* The install run: both implementations, started in a project directory *)

PackageManagers == {"npm", "yarn", "pnpm"}

Formats == {"indent2", "other"}

Entries(name, version) == [n \in PkgNames |-> IF n = name THEN version ELSE NoStr]

\* package.json files a run can start from, as JSON.parse returns them
InstallManifests ==
    {EmptyJson,
     [EmptyJson EXCEPT !.keys = {"dependencies"},
                       !.dependencies = Entries("react", Caret(V(16, 0, 0)))],
     [EmptyJson EXCEPT !.keys = {"devDependencies"},
                       !.devDependencies = Entries("react", Caret(V(18, 2, 0))),
                       !.workspaces = "object"],
     [EmptyJson EXCEPT !.keys = {"dependencies"},
                       !.dependencies = Entries("styled-components", Caret(V(16, 0, 0))),
                       !.workspaces = "array"]}

\* a package.json.backup left behind by an earlier run
StaleFile ==
    File("other", [EmptyJson EXCEPT !.keys = {"dependencies"},
                                    !.dependencies = Entries("eslint", Exact(V(16, 1, 0)))])

Member(name, react, eslint) ==
    [name |-> name,
     peerDependencies |-> [d \in Deps |-> IF d = "react" THEN react ELSE eslint]]

NoPeers == <<Member("root", NoStr, NoStr)>>

\* a group whose ranges parse one by one and not joined
HyphenGroup ==
    <<Member("root", Hyphen(V(16, 0, 0), V(16, 1, 0)), NoStr),
      Member("pkg-a", Caret(V(16, 0, 0)), NoStr)>>

InstallWorkspaces ==
    {NoPeers,
     <<Member("root", Caret(V(18, 0, 0)), NoStr)>>,
     <<Member("root", Caret(V(16, 0, 0)), Caret(V(16, 0, 0))),
       Member("pkg-a", Caret(V(18, 0, 0)), Bad)>>,
     HyphenGroup}

InstallRegistry == {V(16, 0, 0), V(16, 1, 0), V(18, 0, 0), V(18, 2, 0)}

\* a registry whose document lists one key, and that no version
OddRegistry == {NoSemver}

\* index.ts neither looks at the package manager nor at the directory when it
\* merges, and its collector does not read `packages`
InitInstall ==
    /\ driver = "handleInstall"
    /\ impl \in {"legacy", "ts"}
    /\ pm \in PackageManagers
    /\ monorepoFs \in BOOLEAN
    /\ packages \in InstallWorkspaces
    /\ impl = "ts" => (pm = "npm" /\ ~monorepoFs /\ packages = NoPeers)
    /\ published \in {InstallRegistry, OddRegistry}
    /\ published = OddRegistry => (impl = "legacy" /\ packages = HyphenGroup)
    /\ \E fmt \in Formats, json \in InstallManifests : manifest = File(fmt, json)
    /\ backup \in {Absent, OnDisk(StaleFile)}
    /\ original = Disk(manifest, backup)
    /\ pre = Disk(manifest, backup)
    /\ fileCache = NoCachedFile
    /\ peerDeps = [d \in Deps |-> NoStr]
    /\ pc = "read"
    /\ rs = "idle"
    /\ written = FALSE
    /\ backedUp = FALSE
    /\ hist = <<>>
    /\ allPeerDeps = [d \in Deps |-> <<>>]
    /\ resolvedPeerDeps = [d \in Deps |-> NoStr]
    /\ conflictReport = [d \in Deps |-> NoReport]
    /\ outcome = [d \in Deps |-> NoResolution]
    /\ packageVersionCache = [d \in Deps |-> NoCache]
    /\ fetchCount = [d \in Deps |-> 0]
    /\ lastFetch = [d \in Deps |-> "none"]
    /\ task = [d \in Deps |-> NoTask]
    /\ cpc = "start"

NextInstall ==
    \/ \E ok \in BOOLEAN : ReadPackageJson(ok)
    \/ CollectPeerDependencies
    \/ \E dep \in Deps : VersionIntersectionAnswered(dep)
    \/ \E dep \in Deps : CompromiseAnswered(dep)
    \/ \E dep \in Deps : ResolutionStored(dep)
    \/ CollectRaise
    \/ CollectReturn
    \/ \E resolved \in TsResolved : CollectTs(resolved)
    \/ \E ok \in BOOLEAN : ApplyBackup(ok)
    \/ \E ok \in BOOLEAN : ApplyWrite(ok)
    \/ \E ok \in BOOLEAN : InstallPrimary(ok)
    \/ \E ok \in BOOLEAN : InstallForce(ok)
    \/ \E ok \in BOOLEAN : InstallFallback(ok)
    \/ RestoreNoBackup
    \/ \E ok \in BOOLEAN : RestoreCopy(ok)
    \/ \E ok \in BOOLEAN : RestoreUnlink(ok)

SpecInstall == InitInstall /\ [][NextInstall]_vars

-----------------------------------------------------------------------------
(* Properties of the install run *)

Restores == {j \in DOMAIN hist : hist[j].op = "restore"}

\* the records strictly between i and j leave both files as they found them
Untouched(i, j) == \A k \in (i + 1)..(j - 1) : hist[k].post = hist[k].pre

AppliedBefore(j) == \E i \in 1..(j - 1) : hist[i].op = "apply" /\ hist[i].ok

NotRestoredBefore(j) == \A i \in 1..(j - 1) : hist[i].op # "restore"

\* the last restore of the run failed
LastRestoreFailed ==
    \E j \in Restores : ~hist[j].ok /\ \A k \in Restores : k <= j

\* C1: when an install run has terminated and no restore of the run failed,
\* package.json holds what it held when the run started and there is no
\* package.json.backup.  The statement is read in the way that asks least of the
\* code: equality of the parsed content, and runs that start without a
\* leftover package.json.backup.
C1_ManifestRestoredAtTermination ==
    (/\ pc \in Terminal
     /\ ~original.backup.exists
     /\ \A j \in Restores : hist[j].ok)
    => (manifest.json = original.manifest.json /\ ~backup.exists)

\* C2: from the moment the run has written a changed package.json, whenever
\* package.json differs in content from the original, package.json.backup
\* exists and holds the content of the original.
C2_BackupHoldsOriginalWhileMutated ==
    (written /\ manifest.json # original.manifest.json)
    => (backup.exists /\ backup.content.json = original.manifest.json)

C2_Witness ==
    /\ pc = "restore"
    /\ written
    /\ manifest.json # original.manifest.json
    /\ backup.exists

\* C3 (as the code has it): when package.json is about to be written, and when
\* the primary installer or the --force retry is about to be invoked, the
\* backup written by this run is on disk with the content of the original,
\* also when the resolved map is empty; the fallback installer of index.ts is
\* invoked after the restore, with the backup still there or with package.json
\* back to the original bytes.
C3_BackupBeforeWriteAndInstall ==
    /\ pc \in {"write", "install", "force"}
          => (backedUp /\ backup.exists /\ backup.content.json = original.manifest.json)
    /\ pc = "fallback" => (backup.exists \/ manifest = original.manifest)

C3_Witness ==
    /\ pc = "install"
    /\ isEmptyMap(peerDeps)
    /\ backedUp
    /\ backup.exists

\* C3 (as stated): the backup is on disk when package.json is about to be
\* written and whenever an external installer is about to be invoked.
C3_InstallerNeverWithoutBackup ==
    pc \in {"write", "install", "force", "fallback"} => backup.exists

\* C4: a successful apply followed by the next successful restore, nothing in
\* between touching either file, leaves package.json byte for byte as it was
\* before the apply.
C4_ApplyRestoreRoundTrip ==
    \A i \in DOMAIN hist : \A j \in Restores :
        (/\ i < j
         /\ hist[i].op = "apply"
         /\ hist[i].ok
         /\ hist[j].ok
         /\ Untouched(i, j))
        => hist[j].post.manifest = hist[i].pre.manifest

\* C5: a restore that finds no backup changes neither file; a restore that
\* finds one and succeeds leaves package.json with the bytes of the backup
\* and no backup; a restore after a successful restore, nothing in between
\* touching either file, leaves the disk as the first one left it.
C5_RestoreIdempotent ==
    \A j \in Restores :
        /\ ~hist[j].pre.backup.exists => (hist[j].ok /\ hist[j].post = hist[j].pre)
        /\ (hist[j].pre.backup.exists /\ hist[j].ok)
              => hist[j].post = Disk(hist[j].pre.backup.content, Absent)
        /\ \A i \in Restores :
              (i < j /\ hist[i].ok /\ Untouched(i, j)) => hist[j].post = hist[i].post

C5_Witness ==
    \E i \in Restores : \E j \in Restores :
        /\ i < j
        /\ hist[i].ok
        /\ hist[i].pre.backup.exists
        /\ hist[i].post.manifest # hist[i].pre.manifest

\* C6: a restore that fails leaves the backup it found on disk, unchanged; a
\* restore deletes the backup only after package.json has got its bytes; when
\* the run terminates after its last restore failed, the backup is on disk,
\* and it holds the content of the original if this run wrote it.
C6_FailedRestoreKeepsBackup ==
    /\ \A j \in Restores :
          /\ ~hist[j].ok
                => (hist[j].pre.backup.exists /\ hist[j].post.backup = hist[j].pre.backup)
          /\ (hist[j].pre.backup.exists /\ ~hist[j].post.backup.exists)
                => hist[j].post.manifest = hist[j].pre.backup.content
    /\ (pc \in Terminal /\ LastRestoreFailed)
          => /\ backup.exists
             /\ backedUp => backup.content.json = original.manifest.json

C6_Witness ==
    /\ pc \in Terminal
    /\ LastRestoreFailed
    /\ written
    /\ manifest.json # original.manifest.json
    /\ backup.exists

\* C7 (as the code has it): the mutation is the first step and happens once;
\* the primary installer and the --force retry are invoked after the mutation
\* has completed successfully and before any restore has started; the
\* fallback installer of index.ts is invoked right after a restore; a restore
\* is in progress only where the handler awaits one.
C7_InstallBetweenMutationAndRestore ==
    /\ \A j \in DOMAIN hist :
          /\ hist[j].op = "apply" => j = 1
          /\ hist[j].op \in {"install", "force"}
                => (AppliedBefore(j) /\ NotRestoredBefore(j))
          /\ hist[j].op = "fallback"
                => (impl = "ts" /\ AppliedBefore(j) /\ hist[j - 1].op = "restore")
    /\ rs # "idle" => pc \in RestoreSites

C7_Witness ==
    \E i \in DOMAIN hist : \E j \in Restores : \E k \in DOMAIN hist :
        /\ i < j
        /\ j < k
        /\ hist[i].op = "force"
        /\ hist[k].op = "fallback"

\* C7 (as stated): every invocation of an external installer happens after
\* the mutation has completed and before any restore has started.
C7_StrictOrder ==
    \A j \in DOMAIN hist :
        hist[j].op \in {"install", "force", "fallback"}
            => (AppliedBefore(j) /\ NotRestoredBefore(j))

\* the mutated package.json is on disk and no restore has been called yet
AppliedNotRestored == written /\ Restores = {} /\ rs = "idle"

\* C14: in a pnpm project (part_002), from the moment apply has written
\* package.json until restore is called, the written manifest has
\* pnpm.peerDependencyRules.allowedVersions[dep] equal to the resolved version
\* for every resolved dep of the critical set, and package.json.backup exists.
C14_PnpmAllowedVersions ==
    (impl = "legacy" /\ pm = "pnpm" /\ AppliedNotRestored) =>
        /\ \A d \in Deps :
              (Truthy(peerDeps[d]) /\ InSeq(d, KNOWN_CRITICAL_DEPS)) =>
                  /\ "allowedVersions" \in manifest.json.keys
                  /\ manifest.json.allowedVersions[d] = peerDeps[d]
        /\ backup.exists

C14_Witness ==
    /\ impl = "legacy"
    /\ pm = "pnpm"
    /\ pc = "restore"
    /\ AppliedNotRestored
    /\ Truthy(peerDeps["react"])
    /\ Truthy(peerDeps["eslint"])
    /\ manifest.json.allowedVersions["react"] = peerDeps["react"]
    /\ manifest.json.allowedVersions["eslint"] = NoStr
    /\ backup.exists

\* C30: an install run that fails before the backup of the run is written
\* has changed nothing: when it has terminated, package.json on disk is what
\* it was when the run started, also when a package.json.backup of an earlier
\* run was on disk.
C30_FailureBeforeBackupChangesNothing ==
    (pc \in Terminal /\ ~backedUp) => manifest = original.manifest

-----------------------------------------------------------------------------
(* The merge of createTemporaryPackageJson on its own, applied to a parsed
   package.json and then to its own result *)

\* react in both sections
BothSections ==
    [EmptyJson EXCEPT !.keys = {"dependencies", "devDependencies"},
                      !.dependencies = Entries("react", Caret(V(16, 0, 0))),
                      !.devDependencies = Entries("react", Tilde(V(16, 1, 0)))]

\* styled-components without its react peer, workspaces declared as an object
StyledWorkspace ==
    [EmptyJson EXCEPT !.keys = {"dependencies"},
                      !.dependencies = Entries("styled-components", Caret(V(16, 0, 0))),
                      !.workspaces = "object"]

\* directives of every package manager already in place
WithDirectives ==
    [EmptyJson EXCEPT
        !.keys = {"dependencies", "npmConfig", "resolutions", "pnpm", "overrides",
                  "peerDependencyRules", "allowedVersions", "ignoreMissing", "nohoist"},
        !.dependencies = Entries("styled-components", Caret(V(16, 0, 0))),
        !.legacy_peer_deps = TRUE,
        !.resolutions = [Entries("styled-components", Exact(V(16, 0, 0)))
                            EXCEPT !["react"] = Tilde(V(16, 1, 0))],
        !.overrides = [Entries("styled-components", Exact(V(16, 1, 0)))
                            EXCEPT !["eslint"] = Caret(V(16, 0, 0))],
        !.allowedVersions = Entries("styled-components", Star),
        !.ignoreMissing = <<<<"eslint", "react">>, <<"styled-components", "react-dom">>>>,
        !.workspaces = "object",
        !.nohoist = <<"eslint">>]

MergeManifests == InstallManifests \cup {BothSections, StyledWorkspace, WithDirectives}

\* resolved maps: the collector of part_002 also yields range strings, the
\* resolver of index.ts exact versions only
MergeResolved(i) ==
    IF i = "legacy"
    THEN [Deps -> {NoStr, Exact(V(18, 2, 0)), Caret(V(16, 0, 0))}]
    ELSE [Deps -> {NoStr, Exact(V(18, 2, 0)), Exact(V(16, 0, 0))}]

\* part_002 lines 788-888, index.ts lines 925-946
merge(i, json, resolved, manager, fs) ==
    IF i = "legacy" THEN mergeLegacy(json, resolved, manager, fs)
    ELSE mergeTs(json, resolved)

InitMerge ==
    /\ driver = "merge"
    /\ impl \in {"legacy", "ts"}
    /\ pm \in PackageManagers
    /\ monorepoFs \in BOOLEAN
    /\ \E json \in MergeManifests : fileCache = Cached(json)
    /\ peerDeps \in MergeResolved(impl)
    /\ manifest = stringify(fileCache.json)
    /\ backup = Absent
    /\ original = Disk(manifest, backup)
    /\ pre = Disk(manifest, backup)
    /\ pc = "merge"
    /\ rs = "idle"
    /\ written = FALSE
    /\ backedUp = FALSE
    /\ hist = <<>>
    /\ packages = NoPeers
    /\ published = {}
    /\ allPeerDeps = [d \in Deps |-> <<>>]
    /\ resolvedPeerDeps = [d \in Deps |-> NoStr]
    /\ conflictReport = [d \in Deps |-> NoReport]
    /\ outcome = [d \in Deps |-> NoResolution]
    /\ packageVersionCache = [d \in Deps |-> NoCache]
    /\ fetchCount = [d \in Deps |-> 0]
    /\ lastFetch = [d \in Deps |-> "none"]
    /\ task = [d \in Deps |-> NoTask]
    /\ cpc = "start"

\* one application of the merge to the object at hand; package.json gets
\* what JSON.stringify prints of the result
Merge ==
    /\ driver = "merge"
    /\ Len(hist) < MaxApplications
    /\ LET merged == merge(impl, fileCache.json, peerDeps, pm, monorepoFs)
       IN  /\ fileCache' = Cached(merged)
           /\ manifest' = stringify(merged)
           /\ hist' = Append(hist, Record("merge", TRUE, fileCache.json, merged))
    /\ written' = TRUE
    /\ UNCHANGED <<rvars, driver, impl, pm, monorepoFs, backup, peerDeps, pc, rs, original,
                   backedUp, pre>>

NextMerge == Merge

SpecMerge == InitMerge /\ [][NextMerge]_vars

-----------------------------------------------------------------------------
(* Properties of the merge *)

\* C13: applying the merge to the result of an application, with the same
\* resolved map and package manager, gives that result again.
C13_MergeIdempotent ==
    \A j \in DOMAIN hist : j >= 2 => hist[j].post = hist[j].pre

Count(x, seq) == Cardinality({i \in 1..Len(seq) : seq[i] = x})

\* the manifest the merge started from declares workspaces and has
\* styled-components without react
StyledWithoutReact ==
    /\ hist # <<>>
    /\ hist[1].pre.workspaces # "none"
    /\ inAllDependencies(hist[1].pre, "styled-components")
    /\ ~inAllDependencies(hist[1].pre, "react")

\* C15: for a yarn project (part_002) whose manifest declares workspaces and
\* has styled-components without react, the manifest written by apply, and by
\* apply run again on it, holds the no-hoist pattern **/styled-components/**
\* exactly once and the ignore-missing entry "styled-components > react"
\* exactly once.
C15_YarnNohoistAndIgnoreMissing ==
    (impl = "legacy" /\ pm = "yarn" /\ StyledWithoutReact) =>
        /\ Count("styled-components", manifest.json.nohoist) = 1
        /\ Count(<<"styled-components", "react">>, manifest.json.ignoreMissing) = 1

\* the first application of the merge: the object before and after it
Applied == hist # <<>>

Before == hist[1].pre

After == hist[1].post

\* C21: for each resolved dependency, an entry under dependencies with a
\* different version is updated to the resolved version; otherwise an entry
\* under devDependencies with a different version is updated; otherwise, the
\* name being in neither section, it is added to devDependencies.
C21_MergeRule ==
    Applied =>
        \A n \in Deps :
            Truthy(peerDeps[n]) =>
                IF Truthy(Before.dependencies[n]) /\ Before.dependencies[n] # peerDeps[n]
                THEN After.dependencies[n] = peerDeps[n]
                ELSE IF /\ Truthy(Before.devDependencies[n])
                        /\ Before.devDependencies[n] # peerDeps[n]
                THEN After.devDependencies[n] = peerDeps[n]
                ELSE (~Truthy(Before.dependencies[n]) /\ ~Truthy(Before.devDependencies[n]))
                        => (After.devDependencies[n] = peerDeps[n]
                            /\ ~Truthy(After.dependencies[n]))

\* the names that have an entry in a section
Section(entries) == {n \in PkgNames : Truthy(entries[n])}

\* C22: the merge never changes the section a name lives in: the names under
\* dependencies stay under dependencies, the names under devDependencies stay
\* under devDependencies, and a name appears in a section where it was not
\* only if it was in neither section.
C22_SectionsKept ==
    \A j \in DOMAIN hist :
        LET deps0 == Section(hist[j].pre.dependencies)
            dev0 == Section(hist[j].pre.devDependencies)
            deps1 == Section(hist[j].post.dependencies)
            dev1 == Section(hist[j].post.devDependencies)
        IN  /\ deps0 \subseteq deps1
            /\ dev0 \subseteq dev1
            /\ (deps1 \ deps0) \cap dev0 = {}
            /\ (dev1 \ dev0) \cap deps0 = {}

\* a resolved name kept under dependencies while another is added
C22_Witness ==
    /\ Applied
    /\ \E n \in Deps :
          /\ Truthy(peerDeps[n])
          /\ n \in Section(Before.dependencies)
          /\ n \in Section(After.dependencies) \ Section(After.devDependencies)
    /\ \E m \in Deps :
          /\ m \notin Section(Before.dependencies) \cup Section(Before.devDependencies)
          /\ m \in Section(After.dependencies) \cup Section(After.devDependencies)

\* the entries of `before` under the names this run has no resolved version
\* for are in `after` with their value
KeepsOthers(before, after) ==
    \A n \in PkgNames : ~(n \in Deps /\ Truthy(peerDeps[n])) => after[n] = before[n]

IsPrefix(s, t) == Len(s) <= Len(t) /\ SubSeq(t, 1, Len(s)) = s

\* C23: the directives are additive: what package.json held in npmConfig,
\* resolutions, pnpm.overrides, pnpm.peerDependencyRules.allowedVersions and
\* ignoreMissing, and workspaces.nohoist under keys this run does not write is
\* in the written package.json with its value, and the blocks of the package
\* managers that were not selected are as they were.
C23_DirectivesAdditive ==
    \A j \in DOMAIN hist :
        LET b == stringify(hist[j].pre).json
            a == stringify(hist[j].post).json
        IN  /\ b.keys \subseteq a.keys
            /\ b.legacy_peer_deps => a.legacy_peer_deps
            /\ KeepsOthers(b.resolutions, a.resolutions)
            /\ KeepsOthers(b.overrides, a.overrides)
            /\ KeepsOthers(b.allowedVersions, a.allowedVersions)
            /\ IsPrefix(b.ignoreMissing, a.ignoreMissing)
            /\ IsPrefix(b.nohoist, a.nohoist)
            /\ b.hoistingLimits => a.hoistingLimits
            /\ pm # "npm" => a.legacy_peer_deps = b.legacy_peer_deps
            /\ pm # "yarn" => (a.resolutions = b.resolutions /\ a.nohoist = b.nohoist)
            /\ pm # "pnpm" => /\ a.overrides = b.overrides
                              /\ a.allowedVersions = b.allowedVersions
                              /\ a.ignoreMissing = b.ignoreMissing
                              /\ a.hoistingLimits = b.hoistingLimits

\* directives were in place, and the run wrote one next to them
C23_Witness ==
    /\ Applied
    /\ Before = WithDirectives
    /\ \/ /\ pm = "yarn"
          /\ After.resolutions["eslint"] = peerDeps["eslint"]
          /\ Truthy(peerDeps["eslint"])
          /\ After.resolutions["styled-components"] = Exact(V(16, 0, 0))
          /\ Len(After.nohoist) > 1
       \/ /\ pm = "pnpm"
          /\ After.overrides["eslint"] = peerDeps["eslint"]
          /\ Truthy(peerDeps["eslint"])
          /\ After.overrides["styled-components"] = Exact(V(16, 1, 0))
          /\ Len(After.ignoreMissing) > 2

\* C24: after apply (part_002) the resolutions map of a yarn project, and the
\* pnpm.overrides map of a pnpm project, holds every resolved dependency name
\* with exactly its resolved version, the names that are under dependencies
\* or devDependencies included.
C24_EveryResolvedNameDirected ==
    (impl = "legacy" /\ Applied) =>
        \A n \in Deps :
            Truthy(peerDeps[n]) =>
                /\ pm = "yarn" => manifest.json.resolutions[n] = peerDeps[n]
                /\ pm = "pnpm" => manifest.json.overrides[n] = peerDeps[n]

\* a name that was under dependencies, with another version in the map before
C24_Witness ==
    /\ impl = "legacy"
    /\ Applied
    /\ \/ /\ pm = "yarn"
          /\ Truthy(Before.dependencies["react"])
          /\ Truthy(peerDeps["react"])
          /\ manifest.json.resolutions["react"] = peerDeps["react"]
       \/ /\ pm = "pnpm"
          /\ Before.overrides["eslint"] \notin {NoStr, peerDeps["eslint"]}
          /\ Truthy(peerDeps["eslint"])
          /\ manifest.json.overrides["eslint"] = peerDeps["eslint"]

\* `after` is `before` with entries appended, none of which was in the list
\* when it was appended
AppendsNew(before, after) ==
    /\ IsPrefix(before, after)
    /\ \A i \in (Len(before) + 1)..Len(after) : ~InSeq(after[i], SubSeq(after, 1, i - 1))

\* C25: over consecutive applies the ignore-missing list and the no-hoist
\* list get no duplicate: an entry "<package> > <peer>" or "**/<dep>/**"
\* that is in the list is never appended again.
C25_NoDuplicateEntries ==
    /\ \A j \in DOMAIN hist :
          /\ AppendsNew(hist[j].pre.ignoreMissing, hist[j].post.ignoreMissing)
          /\ AppendsNew(hist[j].pre.nohoist, hist[j].post.nohoist)
    /\ \A i, j \in 1..Len(manifest.json.ignoreMissing) :
          manifest.json.ignoreMissing[i] = manifest.json.ignoreMissing[j] => i = j
    /\ \A i, j \in 1..Len(manifest.json.nohoist) :
          manifest.json.nohoist[i] = manifest.json.nohoist[j] => i = j

\* the first apply appended to a list, the second found the entries there
C25_Witness ==
    /\ Len(hist) = 2
    /\ \/ /\ Len(hist[1].post.ignoreMissing) > Len(hist[1].pre.ignoreMissing)
          /\ hist[2].post.ignoreMissing = hist[2].pre.ignoreMissing
          /\ detectProblematicPackages(hist[2].pre) # <<>>
       \/ /\ Len(hist[1].post.nohoist) > Len(hist[1].pre.nohoist)
          /\ hist[2].post.nohoist = hist[2].pre.nohoist
          /\ hist[2].pre.workspaces = "object"

-----------------------------------------------------------------------------
(* findHighestSemverVersion on its own: a group of requirements of react is
   handed to it in some order of its members. *)

MaxRanges == 3

HighestRanges == {Exact(V(16, 0, 0)), Exact(V(18, 2, 0)), Caret(V(16, 0, 0)),
                  Caret(V(18, 0, 0)), Tilde(V(16, 1, 0)), Gte(V(18, 0, 0)), Star, Bad}

Groups(n) ==
    {[i \in 1..n |-> [requiredBy |-> MemberNames[i], versionRange |-> rs0[i]]] :
        rs0 \in [1..n -> HighestRanges]}

Permute(seq, p) == [i \in 1..Len(seq) |-> seq[p[i]]]

InitHighest ==
    /\ driver = "fallback"
    /\ \E n \in 2..MaxRanges : \E group \in Groups(n) :
          allPeerDeps = [d \in Deps |-> IF d = "react" THEN group ELSE <<>>]
    /\ outcome = [d \in Deps |-> NoResolution]
    /\ task = [d \in Deps |-> NoTask]
    /\ packages = NoPeers
    /\ published = {}
    /\ resolvedPeerDeps = [d \in Deps |-> NoStr]
    /\ conflictReport = [d \in Deps |-> NoReport]
    /\ packageVersionCache = [d \in Deps |-> NoCache]
    /\ fetchCount = [d \in Deps |-> 0]
    /\ lastFetch = [d \in Deps |-> "none"]
    /\ cpc = "awaiting"
    /\ impl = "legacy"
    /\ pm = "npm"
    /\ monorepoFs = FALSE
    /\ manifest = stringify(EmptyJson)
    /\ backup = Absent
    /\ fileCache = NoCachedFile
    /\ peerDeps = [d \in Deps |-> NoStr]
    /\ pc = "collect"
    /\ rs = "idle"
    /\ original = Disk(stringify(EmptyJson), Absent)
    /\ written = FALSE
    /\ backedUp = FALSE
    /\ pre = Disk(stringify(EmptyJson), Absent)
    /\ hist = <<>>

\* lines 494, 562: the fallback of resolveVersionConflict, the members of the
\* group having been collected in the order p
FindHighest(p) ==
    /\ driver = "fallback"
    /\ task["react"].pc = "none"
    /\ LET ranges == Permute(rangesOf(allPeerDeps["react"]), p)
       IN  outcome' = [outcome EXCEPT !["react"] =
               Resolution(findHighestSemverVersion(ranges), TRUE, "highest-required", 0)]
    /\ task' = [task EXCEPT !["react"] = Task("done", FALSE, NoResolution)]
    /\ UNCHANGED <<packages, published, allPeerDeps, resolvedPeerDeps, conflictReport,
                   packageVersionCache, fetchCount, lastFetch, cpc>>
    /\ UNCHANGED ivars

NextHighest == \E p \in Permutations(1..Len(allPeerDeps["react"])) : FindHighest(p)

SpecHighest == InitHighest /\ [][NextHighest]_vars

\* the rank of a range in the stated order: caret, then tilde, then the rest
KindRank(s) == IF s.k = "caret" THEN 0 ELSE IF s.k = "tilde" THEN 1 ELSE 2

\* r is first among ranges: no range of a lower rank, and no range of the
\* same rank with a higher base version
FirstInOrder(r, ranges) ==
    /\ \E i \in 1..Len(ranges) : ranges[i] = r
    /\ \A i \in 1..Len(ranges) :
          \/ KindRank(r) < KindRank(ranges[i])
          \/ /\ KindRank(r) = KindRank(ranges[i])
             /\ (HasBase(r) /\ HasBase(ranges[i]))
                   => compare(BaseVersion(r), BaseVersion(ranges[i])) >= 0

\* C20: findHighestSemverVersion returns the greatest exact version when a
\* range is an exact version; otherwise the first range in the order caret
\* before tilde before plain and wildcard, higher base version first within a
\* kind; and it returns the same for every order of the same ranges.
C20_HighestRequiredOrder ==
    Resolved("react") =>
        LET ranges == rangesOf(allPeerDeps["react"])
            r == outcome["react"].resolvedVersion
            exact == {i \in 1..Len(ranges) : valid(ranges[i])}
        IN  /\ r = findHighestSemverVersion(ranges)
            /\ exact # {} => /\ r.k = "exact"
                             /\ \A i \in exact : compare(r.v, ranges[i].v) >= 0
            /\ exact = {} => FirstInOrder(r, ranges)

-----------------------------------------------------------------------------
(* Properties of the collector and of the dispatch (SpecResolver) *)

\* the members that declare dep as a peer dependency
Declaring(d) == {i \in 1..Len(packages) : packages[i].peerDependencies[d] # NoStr}

SameMultiset(s, t) ==
    /\ Len(s) = Len(t)
    /\ \A i \in 1..Len(s) : Count(s[i], s) = Count(s[i], t)

\* C28: for each dependency name the collector builds exactly one requirement
\* per member that declares it, (requiredBy, versionRange) of that member,
\* also when members declare the identical range; and the multiset of
\* requirements of a name is the same for every order of the members.
C28_OneRequirementPerMember ==
    cpc # "start" =>
        \A d \in Deps :
            /\ Len(allPeerDeps[d]) = Cardinality(Declaring(d))
            /\ \A i \in Declaring(d) :
                  Count([requiredBy |-> packages[i].name,
                         versionRange |-> packages[i].peerDependencies[d]],
                        allPeerDeps[d]) = 1
            /\ \A p \in Permutations(1..Len(packages)) :
                  SameMultiset(collectRequirements(Permute(packages, p), d), allPeerDeps[d])

\* two members declare react with the identical range
C28_Witness ==
    /\ cpc # "start"
    /\ Len(packages) >= 2
    /\ packages[1].peerDependencies["react"] = Caret(V(16, 0, 0))
    /\ packages[2].peerDependencies["react"] = Caret(V(16, 0, 0))
    /\ Len(allPeerDeps["react"]) = Cardinality(Declaring("react"))
    /\ Len(allPeerDeps["react"]) >= 2

\* what the task of d resolves to, from the requirements of d and the answer
\* the registry gave to its last request alone
OwnResolution(d) ==
    LET ranges == rangesOf(allPeerDeps[d])
        t == startTask(allPeerDeps[d], TRUE)
        versions == fetchResult(lastFetch[d], published)
    IN  IF t.pc = "settled" THEN t.res
        ELSE IF t.pc = "fetch1" /\ Truthy(findVersionIntersection(ranges, versions))
        THEN Resolution(findVersionIntersection(ranges, versions), FALSE, "intersection", 0)
        ELSE bestCompromise(ranges, versions)

\* C29: one resolution task is dispatched per dependency name with two or
\* more requirements and none for the others; collectPeerDependencies
\* returns only when every dispatched task has completed; and the map it
\* returns has one entry per collected name, whose value is what the task of
\* that name resolved to on its own, whatever the order in which the tasks ran
\* and completed.
C29_OneTaskPerName ==
    /\ cpc # "start" =>
          \A d \in Deps : (task[d].pc # "none") <=> (Len(allPeerDeps[d]) >= 2)
    /\ Returned =>
          \A d \in Deps :
             /\ task[d].pc \in {"none", "done"}
             /\ Len(allPeerDeps[d]) = 0 => resolvedPeerDeps[d] = NoStr
             /\ Len(allPeerDeps[d]) = 1 =>
                   resolvedPeerDeps[d] = allPeerDeps[d][1].versionRange
             /\ Len(allPeerDeps[d]) >= 2 =>
                   /\ Truthy(resolvedPeerDeps[d])
                   /\ resolvedPeerDeps[d] = OwnResolution(d).resolvedVersion

\* two tasks were dispatched, both made a request, and the run returned
C29_Witness ==
    /\ Returned
    /\ \A d \in Deps : Len(allPeerDeps[d]) >= 2 /\ fetchCount[d] >= 1
    /\ resolvedPeerDeps["react"] # resolvedPeerDeps["eslint"]

-----------------------------------------------------------------------------
(* getPackageVersionsFromRegistry on its own: calls made one after the other
   in one process, the registry being free to publish between them. *)

MaxCalls == 3

\* one finished call: whether the cache had the name, whether the try block
\* ran to its end (lines 652-679), and the list returned
CallRecord(dep, hit, ok, versions) ==
    [dep |-> dep, hit |-> hit, ok |-> ok, versions |-> versions]

InitRegistry ==
    /\ driver = "registry"
    /\ published \in Registries
    /\ packageVersionCache = [d \in Deps |-> NoCache]
    /\ fetchCount = [d \in Deps |-> 0]
    /\ lastFetch = [d \in Deps |-> "none"]
    /\ task = [d \in Deps |-> NoTask]
    /\ hist = <<>>
    /\ packages = NoPeers
    /\ allPeerDeps = [d \in Deps |-> <<>>]
    /\ resolvedPeerDeps = [d \in Deps |-> NoStr]
    /\ conflictReport = [d \in Deps |-> NoReport]
    /\ outcome = [d \in Deps |-> NoResolution]
    /\ cpc = "awaiting"
    /\ impl = "legacy"
    /\ pm = "npm"
    /\ monorepoFs = FALSE
    /\ manifest = stringify(EmptyJson)
    /\ backup = Absent
    /\ fileCache = NoCachedFile
    /\ peerDeps = [d \in Deps |-> NoStr]
    /\ pc = "collect"
    /\ rs = "idle"
    /\ original = Disk(stringify(EmptyJson), Absent)
    /\ written = FALSE
    /\ backedUp = FALSE
    /\ pre = Disk(stringify(EmptyJson), Absent)

InFlight == {d \in Deps : task[d].pc = "fetching"}

\* lines 646-648: the cache has the name and the call returns what it holds
CallHit(dep) ==
    /\ driver = "registry"
    /\ Len(hist) + Cardinality(InFlight) < MaxCalls
    /\ task[dep].pc = "none"
    /\ packageVersionCache[dep].has
    /\ hist' = Append(hist, CallRecord(dep, TRUE, TRUE, packageVersionCache[dep].versions))
    /\ UNCHANGED <<rvars, driver, impl, pm, monorepoFs, manifest, backup, fileCache,
                   peerDeps, pc, rs, original, written, pre, backedUp>>

\* lines 646-665: the cache lacks the name and the call sends its request
CallMiss(dep) ==
    /\ driver = "registry"
    /\ Len(hist) + Cardinality(InFlight) < MaxCalls
    /\ task[dep].pc = "none"
    /\ ~packageVersionCache[dep].has
    /\ task' = [task EXCEPT ![dep] = Task("fetching", TRUE, NoResolution)]
    /\ fetchCount' = [fetchCount EXCEPT ![dep] = @ + 1]
    /\ UNCHANGED <<packages, published, allPeerDeps, resolvedPeerDeps, conflictReport,
                   outcome, packageVersionCache, lastFetch, cpc>>
    /\ UNCHANGED ivars

\* lines 665-683: the registry, holding `pub` by now, answers the request
CallAnswered(dep) ==
    /\ driver = "registry"
    /\ task[dep].pc = "fetching"
    /\ \E fetched \in FetchOutcomes, pub \in Registries :
          /\ published' = pub
          /\ packageVersionCache' = cacheAfterFetch(packageVersionCache, dep, fetched, pub)
          /\ lastFetch' = [lastFetch EXCEPT ![dep] = fetched]
          /\ hist' = Append(hist, CallRecord(dep, FALSE, ~tryThrows(fetched, pub),
                                             fetchResult(fetched, pub)))
    /\ task' = [task EXCEPT ![dep] = NoTask]
    /\ UNCHANGED <<packages, allPeerDeps, resolvedPeerDeps, conflictReport, outcome,
                   fetchCount, cpc>>
    /\ UNCHANGED <<driver, impl, pm, monorepoFs, manifest, backup, fileCache, peerDeps, pc,
                   rs, original, written, pre, backedUp>>

NextRegistry ==
    \/ \E dep \in Deps : CallHit(dep)
    \/ \E dep \in Deps : CallMiss(dep)
    \/ \E dep \in Deps : CallAnswered(dep)

SpecRegistry == InitRegistry /\ [][NextRegistry]_vars

\* the call recorded at i fetched the list
FetchSucceeded(i) == ~hist[i].hit /\ hist[i].ok

\* C26: once a fetch for a name has succeeded, every later call for the name
\* returns the same list and issues no fetch; a call that misses the cache
\* issues exactly one fetch.
C26_CacheServesLaterCalls ==
    /\ \A i, j \in DOMAIN hist :
          (i < j /\ hist[i].dep = hist[j].dep /\ FetchSucceeded(i)) =>
              /\ hist[j].hit
              /\ hist[j].versions = hist[i].versions
    /\ \A d \in Deps :
          fetchCount[d] = Cardinality({i \in DOMAIN hist : hist[i].dep = d /\ ~hist[i].hit})
                             + (IF d \in InFlight THEN 1 ELSE 0)

\* a list served from the cache after the registry has published other versions
C26_Witness ==
    \E i, j \in DOMAIN hist :
        /\ i < j
        /\ hist[i].dep = hist[j].dep
        /\ FetchSucceeded(i)
        /\ hist[j].hit
        /\ hist[j].versions # <<>>
        /\ hist[j].versions # SortDesc(published)

=============================================================================
